---- MODULE Spec2Model ----
(***************************************************************************)
(* Model of src-tauri/src/feat/profile.rs: update_profile and its helpers  *)
(* apply_core_update, is_current_profile and download_and_update.          *)
(*                                                                         *)
(* Option<T> is modelled as a sequence of length at most one:              *)
(* None is <<>> and Some(v) is <<v>>.                                      *)
(***************************************************************************)
EXTENDS Integers, Sequences, FiniteSets, TLC

None == <<>>

Some(v) == <<v>>

IsSome(o) == o /= None

\* ------------------------------------------------------------------------
\* Bounds of the model

\* number of update_profile calls a caller issues one after the other
MaxCalls == 2

\* ------------------------------------------------------------------------
\* Data: PrfOption, PrfItem, the profile store

OptBool == {None, Some(TRUE), Some(FALSE)}

OptAgent == {None, Some("ua0"), Some("ua1")}

\* PrfOption: with_proxy, self_proxy and one other fetch-affecting field
PrfOption == [user_agent : OptAgent, with_proxy : OptBool, self_proxy : OptBool]

\* PrfOption::default(): every field None
DefaultOption == [user_agent |-> None, with_proxy |-> None, self_proxy |-> None]

\* Option::or on one field
OrElse(b, a) == IF IsSome(b) THEN b ELSE a

\* PrfOption::merge(one, other): other's present fields win
merge(one, other) ==
    IF IsSome(one) /\ IsSome(other)
    THEN Some([user_agent |-> OrElse(other[1].user_agent, one[1].user_agent),
               with_proxy |-> OrElse(other[1].with_proxy, one[1].with_proxy),
               self_proxy |-> OrElse(other[1].self_proxy, one[1].self_proxy)])
    ELSE OrElse(one, other)

Url == "http://x"

\* uids held by the store, and one uid the store does not hold
StoreUids == {"A", "B", "L", "N"}

Uids == StoreUids \cup {"Z"}

\* the options the remote profile A may be stored with
StoredOptions ==
    {None,
     Some([user_agent |-> None, with_proxy |-> Some(TRUE), self_proxy |-> None]),
     Some([user_agent |-> Some("ua0"), with_proxy |-> Some(TRUE), self_proxy |-> None])}

\* the override options a caller may pass
OverrideOptions ==
    {None,
     Some(DefaultOption),
     Some([user_agent |-> None, with_proxy |-> None, self_proxy |-> Some(FALSE)]),
     Some([user_agent |-> Some("ua1"), with_proxy |-> Some(FALSE), self_proxy |-> Some(TRUE)])}

PrfItem(itype, url, name, option) ==
    [itype |-> itype, url |-> url, name |-> name, option |-> option]

\* the store before any update: A remote with url, B remote without url,
\* L local, N without a type
InitStore(optA) ==
    [u \in StoreUids |->
        CASE u = "A" -> PrfItem(Some("remote"), Some(Url), Some("subA"), optA)
          [] u = "B" -> PrfItem(Some("remote"), None, Some("subB"), None)
          [] u = "L" -> PrfItem(Some("local"), None, Some("locL"), None)
          [] OTHER   -> PrfItem(None, None, None, None)]

\* ------------------------------------------------------------------------
\* External collaborators

FetchErrors == {"e1", "e2"}

CoreErrors == {"core_err"}

ErrNotFound == "failed to find the profile item"

ErrMissingUrl == "failed to get the profile item url"

\* PrfItem::from_url(url, None, None, option) on success: a remote item for
\* that url, with or without a name, whose option is absent, empty or
\* carries the fields of the option passed in
FetchItems(url, option) ==
    {PrfItem(Some("remote"), Some(url), n, o) :
        n \in {None, Some("sub")},
        o \in {None, Some(DefaultOption), Some(IF IsSome(option) THEN option[1] ELSE DefaultOption)}}

\* IProfiles::get_item(uid)
get_item(st, uid) ==
    IF uid \in DOMAIN st
    THEN [ok |-> TRUE, item |-> st[uid], err |-> ""]
    ELSE [ok |-> FALSE, item |-> PrfItem(None, None, None, None), err |-> ErrNotFound]

\* IProfiles::update_item(uid, item): replaces the item held under uid
update_item(st, uid, item) ==
    IF uid \in DOMAIN st
    THEN [ok |-> TRUE, store |-> [st EXCEPT ![uid] = item], err |-> ""]
    ELSE [ok |-> FALSE, store |-> st, err |-> ErrNotFound]

\* ------------------------------------------------------------------------
\* State

Tasks == {"t1", "t2"}

VARIABLES
    store,          \* Config::profiles(): uid -> PrfItem
    current,        \* Config::profiles().get_current(): Option<uid>
    pc,             \* per task: position in update_profile
    uid,            \* argument uid
    option,         \* argument option
    auto_refresh,   \* auto_refresh.unwrap_or(true)
    skip_fetch,     \* skip_fetch.unwrap_or(false)
    url,            \* url of the remote profile
    merged_opt,     \* PrfOption::merge(opt, option)
    item,           \* Option<PrfItem>: the item a fetch returned
    should_update,  \* whether apply_core_update follows
    ret,            \* Option<Result<(), String>> of update_profile
    trace,          \* per task: what the running call did, in order
    before,         \* per task: store and current when the call was issued
    ncalls,         \* calls issued so far
    order           \* the calls, fetch returns and store replaces of the
                    \* calls that overlap, in the order they happened

vars == <<store, current, pc, uid, option, auto_refresh, skip_fetch, url,
          merged_opt, item, should_update, ret, trace, before, ncalls, order>>

Ok == [ok |-> TRUE, err |-> ""]

Err(e) == [ok |-> FALSE, err |-> e]

\* one entry of a call's trace
Event(ev, a, b, o) == [ev |-> ev, a |-> a, b |-> b, opt |-> o]

\* handle::Handle::notice_message(key, text)
Notice(key, text) == Event("notice", key, text, None)

\* one invocation of PrfItem::from_url and how it ended
Fetched(u, o, outcome) == Event("fetch", u, outcome, o)

\* ------------------------------------------------------------------------
\* Helpers of the code

\* a slip of is_current_profile: any active profile counts as this one
is_current_profile_any(cur, u) == IsSome(cur)

\* is_current_profile(uid)
is_current_profile(cur, u) == Some(u) = cur

\* a slip of is_remote: the type is present, whatever it is
is_remote_any_type(it) == IsSome(it.itype)

\* item.itype.as_ref().is_some_and(|s| s == "remote")
is_remote(it) == IsSome(it.itype) /\ it.itype[1] = "remote"

\* what the block that computes url_opt yields: an error, None for a
\* profile that is not remote, or Some((url, option))
UrlErr(e) == [tag |-> "err", err |-> e, url |-> "", opt |-> None]

UrlNone == [tag |-> "none", err |-> "", url |-> "", opt |-> None]

UrlSome(u, o) == [tag |-> "some", err |-> "", url |-> u, opt |-> o]

\* a slip of url_opt: a remote profile without url is taken as not remote
url_opt_no_url_check(st, u) ==
    LET r == get_item(st, u) IN
    IF ~r.ok THEN UrlErr(r.err)
    ELSE IF ~is_remote(r.item) \/ r.item.url = None THEN UrlNone
    ELSE UrlSome(r.item.url[1], r.item.option)

\* a slip of url_opt: get_item(&uid).ok(), a missing profile is taken as
\* not remote
url_opt_missing_ok(st, u) ==
    LET r == get_item(st, u) IN
    IF ~r.ok \/ ~is_remote(r.item) THEN UrlNone
    ELSE IF r.item.url = None THEN UrlErr(ErrMissingUrl)
    ELSE UrlSome(r.item.url[1], r.item.option)

\* a slip of url_opt: the url is looked at before the type
url_opt_url_first(st, u) ==
    LET r == get_item(st, u) IN
    IF ~r.ok THEN UrlErr(r.err)
    ELSE IF r.item.url = None THEN UrlErr(ErrMissingUrl)
    ELSE IF ~is_remote(r.item) THEN UrlNone
    ELSE UrlSome(r.item.url[1], r.item.option)

\* the block that computes url_opt
url_opt(st, u) ==
    LET r == get_item(st, u) IN
    IF ~r.ok THEN UrlErr(r.err)
    ELSE IF ~is_remote(r.item) THEN UrlNone
    ELSE IF r.item.url = None THEN UrlErr(ErrMissingUrl)
    ELSE UrlSome(r.item.url[1], r.item.option)

\* a slip of merged_option: the arguments of merge are swapped
merged_option_swapped(opt, o) == merge(o, opt)

\* PrfOption::merge(opt, option): the stored option, then the caller's
merged_option(opt, o) == merge(opt, o)

\* merged_opt.as_ref().and_then(|o| o.with_proxy)
original_with_proxy(m) == IF IsSome(m) THEN m[1].with_proxy ELSE None

\* merged_opt.as_ref().and_then(|o| o.self_proxy)
original_self_proxy(m) == IF IsSome(m) THEN m[1].self_proxy ELSE None

\* a slip of fallback_opt: with_proxy is left as the merged option has it
fallback_opt_self_only(m) ==
    [(IF IsSome(m) THEN m[1] ELSE DefaultOption) EXCEPT !.self_proxy = Some(TRUE)]

\* merged_opt.unwrap_or_default() with with_proxy and self_proxy forced
fallback_opt(m) ==
    [(IF IsSome(m) THEN m[1] ELSE DefaultOption)
        EXCEPT !.with_proxy = Some(FALSE), !.self_proxy = Some(TRUE)]

\* a slip of restore_option: the forced values are left on the item
restore_option_skipped(it, owp, osp) == it

\* if let Some(option) = item.option.as_mut() { restore the two fields }
restore_option(it, owp, osp) ==
    IF IsSome(it.option)
    THEN [it EXCEPT !.option = Some([it.option[1] EXCEPT !.with_proxy = owp,
                                                          !.self_proxy = osp])]
    ELSE it

\* a slip of should_reload: auto_refresh is not consulted
should_reload_ignoring_auto(is_current, ar) == is_current

\* Ok(is_current && auto_refresh)
should_reload(is_current, ar) == is_current /\ ar

\* a slip of profile_name: the uid, whatever the item's name
profile_name_uid_only(it, u) == u

\* item.name.clone().unwrap_or_else(|| uid.clone())
profile_name(it, u) == IF IsSome(it.name) THEN it.name[1] ELSE u

\* a slip of retry_notice: no notification before the retry
retry_notice_none(u) == <<>>

\* the notification after the first fetch failed
retry_notice(u) == <<Notice("update_retry_with_clash", u)>>

\* a slip of failed_notice: the final failure is only logged
failed_notice_none(retry_err) == <<>>

\* the notification after the second fetch failed
failed_notice(retry_err) == <<Notice("update_failed_even_with_clash", retry_err)>>

\* a slip of retry_error: the first attempt's error is returned
retry_error_first(err, retry_err) == err

\* Err(retry_err): the error download_and_update fails with
retry_error(err, retry_err) == retry_err

\* a slip of core_result: apply_core_update().await? propagates the failure
core_result_propagated(r) == r

\* what update_profile returns after apply_core_update, given the Result of
\* update_config: Ok(()), the failure is handled inside apply_core_update
core_result(r) == Ok

\* ------------------------------------------------------------------------
\* Initial state: no call issued yet

Init ==
    /\ \E optA \in StoredOptions : store = InitStore(optA)
    /\ current \in {None, Some("A"), Some("L")}
    /\ pc = [c \in Tasks |-> "idle"]
    /\ uid = [c \in Tasks |-> "A"]
    /\ option = [c \in Tasks |-> None]
    /\ auto_refresh = [c \in Tasks |-> TRUE]
    /\ skip_fetch = [c \in Tasks |-> FALSE]
    /\ url = [c \in Tasks |-> ""]
    /\ merged_opt = [c \in Tasks |-> None]
    /\ item = [c \in Tasks |-> None]
    /\ should_update = [c \in Tasks |-> FALSE]
    /\ ret = [c \in Tasks |-> None]
    /\ trace = [c \in Tasks |-> <<>>]
    /\ before = [c \in Tasks |-> [store |-> store, current |-> current]]
    /\ ncalls = 0
    /\ order = <<>>

\* no item
NoItem == PrfItem(None, None, None, None)

\* one entry of order: the task, what it did, and the item it fetched or wrote
Mark(c, what, it) == [task |-> c, what |-> what, item |-> it]

Happened(c, what, it) == order' = Append(order, Mark(c, what, it))

\* the arguments of a call
Args == <<uid, option, auto_refresh, skip_fetch, before>>

Log(c, evs) == trace' = [trace EXCEPT ![c] = trace[c] \o evs]

Return(c, r) ==
    /\ pc' = [pc EXCEPT ![c] = "done"]
    /\ ret' = [ret EXCEPT ![c] = Some(r)]

\* a slip of read_current: the activation as it was when the call began
read_current_stale(c) == before[c].current

\* profiles.get_current(), read when is_current_profile is called
read_current(c) == current

\* an Option<uid> as text, "" for None
CurrentText(cur) == IF cur = None THEN "" ELSE cur[1]

\* is_current_profile is called; the trace keeps the active profile of
\* that moment
CurrentRead(c) == Event("get_current", uid[c], CurrentText(current), None)

\* a slip of fallback_stored: the notification precedes the store replace
fallback_stored_notice_first(u, name) ==
    <<Notice("update_with_clash_proxy", name), Event("update_item", u, "ok", None)>>

\* lines 106-109: update_item, then the notification
fallback_stored(u, name) ==
    <<Event("update_item", u, "ok", None), Notice("update_with_clash_proxy", name)>>

\* the error of the first fetch, still in scope during the second
first_err(c) == SelectSeq(trace[c], LAMBDA e : e.ev = "fetch")[1].b

\* a slip of store_replace: a replace of an entry another call has replaced
\* since this call began is dropped
store_replace_first_wins(st, u, it) ==
    IF \E i \in DOMAIN order : order[i].what = "replaced" /\ uid[order[i].task] = u
    THEN [ok |-> TRUE, store |-> st, err |-> ""]
    ELSE update_item(st, u, it)

\* a slip of store_replace: the item replaces every remote entry
store_replace_every_remote(st, u, it) ==
    IF u \in DOMAIN st
    THEN [ok |-> TRUE,
          store |-> [k \in DOMAIN st |->
                        IF k = u \/ st[k].itype = Some("remote") THEN it ELSE st[k]],
          err |-> ""]
    ELSE update_item(st, u, it)

\* lines 76-78 and 104-106: the store is taken and the item replaced under
\* uid, with no suspension point in between
store_replace(st, u, it) == update_item(st, u, it)

\* ------------------------------------------------------------------------
\* update_profile, one action per step between two suspension points

\* update_profile(uid, option, auto_refresh, skip_fetch) is invoked
Call(c) ==
    /\ pc[c] \in {"idle", "done"}
    /\ ncalls < MaxCalls
    /\ ncalls' = ncalls + 1
    /\ \E u \in Uids, o \in OverrideOptions, ar \in BOOLEAN, sf \in BOOLEAN :
        /\ uid' = [uid EXCEPT ![c] = u]
        /\ option' = [option EXCEPT ![c] = o]
        /\ auto_refresh' = [auto_refresh EXCEPT ![c] = ar]
        /\ skip_fetch' = [skip_fetch EXCEPT ![c] = sf]
    /\ pc' = [pc EXCEPT ![c] = "start"]
    /\ url' = [url EXCEPT ![c] = ""]
    /\ merged_opt' = [merged_opt EXCEPT ![c] = None]
    /\ item' = [item EXCEPT ![c] = None]
    /\ should_update' = [should_update EXCEPT ![c] = FALSE]
    /\ ret' = [ret EXCEPT ![c] = None]
    /\ trace' = [trace EXCEPT ![c] = <<>>]
    /\ before' = [before EXCEPT ![c] = [store |-> store, current |-> current]]
    /\ order' = IF \A d \in Tasks \ {c} : pc[d] \in {"idle", "done"}
                THEN <<Mark(c, "called", NoItem)>>
                ELSE Append(order, Mark(c, "called", NoItem))
    /\ UNCHANGED <<store, current>>

\* lines 147-152: skip_fetch, only the core configuration may be updated
SkipFetch(c) ==
    /\ pc[c] = "start"
    /\ skip_fetch[c]
    /\ should_update' = [should_update EXCEPT ![c] =
            is_current_profile(read_current(c), uid[c]) /\ auto_refresh[c]]
    /\ pc' = [pc EXCEPT ![c] = "decide"]
    /\ Log(c, <<CurrentRead(c)>>)
    /\ UNCHANGED <<store, current, Args, url, merged_opt, item, ret, ncalls, order>>

\* lines 154-183: look the item up, classify it, merge the options
Lookup(c) ==
    /\ pc[c] = "start"
    /\ ~skip_fetch[c]
    /\ LET r == url_opt(store, uid[c]) IN
        CASE r.tag = "err" ->
                /\ Return(c, Err(r.err))
                /\ UNCHANGED <<url, merged_opt, should_update>>
          [] r.tag = "none" ->
                /\ should_update' = [should_update EXCEPT ![c] = auto_refresh[c]]
                /\ pc' = [pc EXCEPT ![c] = "decide"]
                /\ UNCHANGED <<url, merged_opt, ret>>
          [] OTHER ->
                /\ url' = [url EXCEPT ![c] = r.url]
                /\ merged_opt' = [merged_opt EXCEPT ![c] = merged_option(r.opt, option[c])]
                /\ pc' = [pc EXCEPT ![c] = "fetch1"]
                /\ UNCHANGED <<should_update, ret>>
    /\ Log(c, <<Event("get_item", uid[c], "", None)>>)
    /\ UNCHANGED <<store, current, Args, item, ncalls, order>>

\* line 73 and lines 84-86: the first fetch, with the merged option
Fetch1(c) ==
    /\ pc[c] = "fetch1"
    /\ \/ \E it \in FetchItems(url[c], merged_opt[c]) :
            /\ item' = [item EXCEPT ![c] = Some(it)]
            /\ pc' = [pc EXCEPT ![c] = "store1"]
            /\ Log(c, <<Fetched(url[c], merged_opt[c], "ok")>>)
            /\ Happened(c, "fetched", it)
       \/ \E err \in FetchErrors :
            /\ pc' = [pc EXCEPT ![c] = "fetch2"]
            /\ Log(c, <<Fetched(url[c], merged_opt[c], err)>> \o retry_notice(uid[c]))
            /\ UNCHANGED <<item, order>>
    /\ UNCHANGED <<store, current, Args, url, merged_opt, should_update, ret, ncalls>>

\* lines 76-82: replace the item and decide on the reload
Store1(c) ==
    /\ pc[c] = "store1"
    /\ LET r == store_replace(store, uid[c], item[c][1]) IN
        IF ~r.ok
        THEN /\ Return(c, Err(r.err))
             /\ Log(c, <<Event("update_item", uid[c], r.err, None)>>)
             /\ UNCHANGED <<store, should_update, order>>
        ELSE /\ store' = r.store
             /\ should_update' = [should_update EXCEPT ![c] =
                    should_reload(is_current_profile(read_current(c), uid[c]), auto_refresh[c])]
             /\ pc' = [pc EXCEPT ![c] = "decide"]
             /\ Log(c, <<Event("update_item", uid[c], "ok", None), CurrentRead(c)>>)
             /\ Happened(c, "replaced", item[c][1])
             /\ UNCHANGED ret
    /\ UNCHANGED <<current, Args, url, merged_opt, item, ncalls>>

\* lines 88-97 and 115-122: the second fetch, forced through the core's proxy
Fetch2(c) ==
    /\ pc[c] = "fetch2"
    /\ LET fo == Some(fallback_opt(merged_opt[c])) IN
       \/ \E it \in FetchItems(url[c], fo) :
            /\ item' = [item EXCEPT ![c] = Some(it)]
            /\ pc' = [pc EXCEPT ![c] = "store2"]
            /\ Log(c, <<Fetched(url[c], fo, "ok")>>)
            /\ Happened(c, "fetched", it)
            /\ UNCHANGED ret
       \/ \E retry_err \in FetchErrors :
            /\ Return(c, Err(retry_error(first_err(c), retry_err)))
            /\ Log(c, <<Fetched(url[c], fo, retry_err)>> \o failed_notice(retry_err))
            /\ UNCHANGED <<item, order>>
    /\ UNCHANGED <<store, current, Args, url, merged_opt, should_update, ncalls>>

\* lines 99-113: restore the two fields, replace the item, notify, decide
\* on the reload
Store2(c) ==
    /\ pc[c] = "store2"
    /\ LET it == restore_option(item[c][1], original_with_proxy(merged_opt[c]),
                                            original_self_proxy(merged_opt[c]))
           r == store_replace(store, uid[c], it)
       IN
        IF ~r.ok
        THEN /\ Return(c, Err(r.err))
             /\ Log(c, <<Event("update_item", uid[c], r.err, None)>>)
             /\ UNCHANGED <<store, should_update, order>>
        ELSE /\ store' = r.store
             /\ should_update' = [should_update EXCEPT ![c] =
                    should_reload(is_current_profile(read_current(c), uid[c]), auto_refresh[c])]
             /\ pc' = [pc EXCEPT ![c] = "decide"]
             /\ Log(c, fallback_stored(uid[c], profile_name(it, uid[c]))
                            \o <<CurrentRead(c)>>)
             /\ Happened(c, "replaced", it)
             /\ UNCHANGED ret
    /\ UNCHANGED <<current, Args, url, merged_opt, item, ncalls>>

\* lines 27-56 with 149-151 and 185-189: apply_core_update, then Ok(())
ApplyCoreUpdate(c) ==
    /\ pc[c] = "decide"
    /\ should_update[c]
    /\ \/ /\ Log(c, <<Event("update_config", "", "ok", None),
                      Event("refresh_clash", "", "", None)>>)
          /\ Return(c, core_result(Ok))
       \/ \E err \in CoreErrors :
          /\ Log(c, <<Event("update_config", "", err, None),
                      Notice("update_failed", err)>>)
          /\ Return(c, core_result(Err(err)))
    /\ UNCHANGED <<store, current, Args, url, merged_opt, item, should_update, ncalls, order>>

\* lines 151 and 185-189 without a reload: Ok(())
ReturnOk(c) ==
    /\ pc[c] = "decide"
    /\ ~should_update[c]
    /\ Return(c, Ok)
    /\ UNCHANGED <<store, current, Args, url, merged_opt, item, should_update, trace, ncalls, order>>

Step(c) ==
    \/ SkipFetch(c)
    \/ Lookup(c)
    \/ Fetch1(c)
    \/ Store1(c)
    \/ Fetch2(c)
    \/ Store2(c)
    \/ ApplyCoreUpdate(c)
    \/ ReturnOk(c)

\* one caller that awaits each call before it issues the next
Next == Call("t1") \/ Step("t1")

Spec == Init /\ [][Next]_vars

\* ------------------------------------------------------------------------
\* Another actor activates a profile while a call runs

\* toggle_proxy_profile: another stored profile becomes the current one
ToggleProxyProfile ==
    /\ \E u \in {"A", "L"} :
        /\ current /= Some(u)
        /\ current' = Some(u)
    /\ UNCHANGED <<store, pc, Args, url, merged_opt, item, should_update, ret, trace, ncalls, order>>

\* the first call of a run
FirstCall(c) == ncalls = 0 /\ Call(c)

\* one call, and the other actor at any moment
NextToggle == FirstCall("t1") \/ Step("t1") \/ ToggleProxyProfile

SpecToggle == Init /\ [][NextToggle]_vars

\* ------------------------------------------------------------------------
\* Two calls that overlap

\* the arguments the two overlapping calls are issued with
ConcUids == {"A", "L"}

\* a task issues its one call
TaskCall(c) ==
    /\ pc[c] = "idle"
    /\ Call(c)
    /\ uid'[c] \in ConcUids
    /\ option'[c] = None
    /\ auto_refresh'[c]

\* update_profile is an async fn: two calls interleave at their suspension
\* points, and nothing in the file orders them
NextConc == \E c \in Tasks : TaskCall(c) \/ Step(c)

SpecConc == Init /\ [][NextConc]_vars

\* ------------------------------------------------------------------------
\* The store handle

\* lines 76-78: `let mut profiles = profiles.latest()` takes the store handle
\* for writing and the item is replaced; the handle lives to the end of the
\* match arm, so it is still held when line 80 is reached
Replace1(c) ==
    /\ pc[c] = "store1"
    /\ LET r == store_replace(store, uid[c], item[c][1]) IN
        IF ~r.ok
        THEN /\ Return(c, Err(r.err))
             /\ Log(c, <<Event("update_item", uid[c], r.err, None)>>)
             /\ UNCHANGED <<store, order>>
        ELSE /\ store' = r.store
             /\ pc' = [pc EXCEPT ![c] = "holding"]
             /\ Log(c, <<Event("update_item", uid[c], "ok", None)>>)
             /\ Happened(c, "replaced", item[c][1])
             /\ UNCHANGED ret
    /\ UNCHANGED <<current, Args, url, merged_opt, item, should_update, ncalls>>

\* lines 99-109: the same on the fallback path, the handle still held when
\* line 111 is reached
Replace2(c) ==
    /\ pc[c] = "store2"
    /\ LET it == restore_option(item[c][1], original_with_proxy(merged_opt[c]),
                                            original_self_proxy(merged_opt[c]))
           r == store_replace(store, uid[c], it)
       IN
        IF ~r.ok
        THEN /\ Return(c, Err(r.err))
             /\ Log(c, <<Event("update_item", uid[c], r.err, None)>>)
             /\ UNCHANGED <<store, order>>
        ELSE /\ store' = r.store
             /\ pc' = [pc EXCEPT ![c] = "holding"]
             /\ Log(c, fallback_stored(uid[c], profile_name(it, uid[c])))
             /\ Happened(c, "replaced", it)
             /\ UNCHANGED ret
    /\ UNCHANGED <<current, Args, url, merged_opt, item, should_update, ncalls>>

\* lines 80-82 and 111-113, is_current_profile takes the store handle again
\* (line 61) while the caller holds it: the handle is handed out a second
\* time and the check returns
ActivationCheckReturns(c) ==
    /\ pc[c] = "holding"
    /\ should_update' = [should_update EXCEPT ![c] =
            should_reload(is_current_profile(read_current(c), uid[c]), auto_refresh[c])]
    /\ pc' = [pc EXCEPT ![c] = "decide"]
    /\ Log(c, <<CurrentRead(c)>>)
    /\ UNCHANGED <<store, current, Args, url, merged_opt, item, ret, ncalls, order>>

\* the same call of line 61 when the handle is exclusive: the task waits
\* for a handle that only it can release
ActivationCheckBlocks(c) ==
    /\ pc[c] = "holding"
    /\ pc' = [pc EXCEPT ![c] = "blocked"]
    /\ UNCHANGED <<store, current, Args, url, merged_opt, item, should_update, ret,
                   trace, ncalls, order>>

\* one call, with the store handle of the replace and of the activation check
NextHandle ==
    \/ FirstCall("t1")
    \/ SkipFetch("t1")
    \/ Lookup("t1")
    \/ Fetch1("t1")
    \/ Replace1("t1")
    \/ Fetch2("t1")
    \/ Replace2("t1")
    \/ ActivationCheckReturns("t1")
    \/ ActivationCheckBlocks("t1")
    \/ ApplyCoreUpdate("t1")
    \/ ReturnOk("t1")

SpecHandle == Init /\ [][NextHandle]_vars

\* ------------------------------------------------------------------------
\* Reading a call's trace

Done(c) == pc[c] = "done"

Select(c, kind) == SelectSeq(trace[c], LAMBDA e : e.ev = kind)

\* the invocations of the fetch primitive, in order
Fetches(c) == Select(c, "fetch")

\* the notifications, in order
Notices(c) == Select(c, "notice")

NoticesOf(c, key) == SelectSeq(trace[c], LAMBDA e : e.ev = "notice" /\ e.a = key)

\* the invocations of the core reload
Reloads(c) == Select(c, "update_config")

\* the successful store replaces
Writes(c) == SelectSeq(trace[c], LAMBDA e : e.ev = "update_item" /\ e.b = "ok")

\* positions of the trace holding an event of that kind
Positions(c, kind) == {i \in DOMAIN trace[c] : trace[c][i].ev = kind}

FirstFailed(c) == Len(Fetches(c)) >= 1 /\ Fetches(c)[1].b /= "ok"

FirstSucceeded(c) == Len(Fetches(c)) >= 1 /\ Fetches(c)[1].b = "ok"

SecondFailed(c) == Len(Fetches(c)) >= 2 /\ Fetches(c)[2].b /= "ok"

SecondSucceeded(c) == Len(Fetches(c)) >= 2 /\ Fetches(c)[2].b = "ok"

FetchSucceeded(c) == FirstSucceeded(c) \/ SecondSucceeded(c)

\* the store entries and currentUid are as they were when the call was issued
Untouched(c) == store = before[c].store /\ current = before[c].current

\* a field of an Option<PrfOption>, absent when the option is
WithProxyOf(o) == IF o = None THEN None ELSE o[1].with_proxy

SelfProxyOf(o) == IF o = None THEN None ELSE o[1].self_proxy

\* the fallback attempt succeeded and its item has been persisted
FallbackPersisted(c) ==
    /\ FirstFailed(c)
    /\ SecondSucceeded(c)
    /\ Len(Writes(c)) = 1

\* ------------------------------------------------------------------------
\* C1

\* C1 as stated: after attempt 1 failed and attempt 2 succeeded, the item
\* persisted under uid has with_proxy and self_proxy equal to those of the
\* merged option before forcing, for every item the fetch may return,
\* one whose option is absent included.
C1_OriginalRestoredAlways ==
    \A c \in Tasks :
        FallbackPersisted(c) =>
            /\ WithProxyOf(store[uid[c]].option) = WithProxyOf(merged_opt[c])
            /\ SelfProxyOf(store[uid[c]].option) = SelfProxyOf(merged_opt[c])

\* C1 amended: after attempt 1 failed and attempt 2 succeeded, the persisted
\* item is the returned item with, when its option is present, with_proxy
\* and self_proxy set to the merged values before forcing (every other field
\* as returned); when the returned item's option is absent the persisted
\* option stays absent, whatever the merged option set.
C1_RestoredWhenOptionPresent ==
    \A c \in Tasks :
        FallbackPersisted(c) =>
            LET got == item[c][1]
                kept == store[uid[c]]
            IN  /\ kept.name = got.name /\ kept.url = got.url /\ kept.itype = got.itype
                /\ IsSome(kept.option) <=> IsSome(got.option)
                /\ IsSome(got.option) =>
                    /\ kept.option[1].with_proxy = WithProxyOf(merged_opt[c])
                    /\ kept.option[1].self_proxy = SelfProxyOf(merged_opt[c])
                    /\ kept.option[1].user_agent = got.option[1].user_agent

\* C1 witness: the fallback item echoed the forced option, the merged option
\* set with_proxy to true and left self_proxy unset, and the item is persisted
C1_Witness ==
    /\ FallbackPersisted("t1")
    /\ IsSome(item["t1"][1].option)
    /\ item["t1"][1].option[1].with_proxy = Some(FALSE)
    /\ item["t1"][1].option[1].self_proxy = Some(TRUE)
    /\ WithProxyOf(merged_opt["t1"]) = Some(TRUE)
    /\ SelfProxyOf(merged_opt["t1"]) = None

\* ------------------------------------------------------------------------
\* C2

\* C2: when both fetch attempts fail, update_profile fails with the second
\* attempt's error, the last thing it did was to emit
\* update_failed_even_with_clash with that error's text, the store and
\* currentUid are as before the call, and the core reload was not invoked.
C2_BothFailed ==
    \A c \in Tasks :
        (FirstFailed(c) /\ SecondFailed(c)) =>
            /\ Done(c)
            /\ ret[c] = Some(Err(Fetches(c)[2].b))
            /\ NoticesOf(c, "update_failed_even_with_clash")
                    = <<Notice("update_failed_even_with_clash", Fetches(c)[2].b)>>
            /\ trace[c][Len(trace[c])] = Notice("update_failed_even_with_clash", Fetches(c)[2].b)
            /\ Writes(c) = <<>>
            /\ Untouched(c)
            /\ Reloads(c) = <<>>

\* C2 witness: both attempts failed, with different errors
C2_Witness ==
    /\ FirstFailed("t1")
    /\ SecondFailed("t1")
    /\ Fetches("t1")[1].b = "e1"
    /\ Fetches("t1")[2].b = "e2"
    /\ ret["t1"] = Some(Err("e2"))

\* ------------------------------------------------------------------------
\* C3

\* the profile the call is about, as it was when the call was issued
Had(c) == uid[c] \in DOMAIN before[c].store

HadItem(c) == before[c].store[uid[c]]

HadRemote(c) == Had(c) /\ HadItem(c).itype = Some("remote")

\* C3: update_profile returns Ok except when the uid is absent from the
\* store (not-found error), the profile is remote without url (missing-url
\* error) or both fetch attempts failed (the second error); once a fetch
\* attempt has succeeded it returns Ok.
C3_OkExceptThree ==
    \A c \in Tasks :
        Done(c) =>
            /\ \/ ret[c] = Some(Ok)
               \/ /\ ret[c] = Some(Err(ErrNotFound))
                  /\ ~skip_fetch[c] /\ ~Had(c)
               \/ /\ ret[c] = Some(Err(ErrMissingUrl))
                  /\ ~skip_fetch[c] /\ HadRemote(c) /\ HadItem(c).url = None
               \/ /\ FirstFailed(c) /\ SecondFailed(c)
                  /\ ret[c] = Some(Err(Fetches(c)[2].b))
            /\ FetchSucceeded(c) => ret[c] = Some(Ok)
            /\ (skip_fetch[c] \/ (Had(c) /\ ~HadRemote(c))) => ret[c] = Some(Ok)

\* C3 witness: a call on the local profile has returned Ok
C3_Witness ==
    /\ Done("t1")
    /\ uid["t1"] = "L"
    /\ ~skip_fetch["t1"]
    /\ ret["t1"] = Some(Ok)

\* ------------------------------------------------------------------------
\* C4

\* C4: with skip_fetch the call never invokes the fetch primitive, never
\* reads or writes a store entry, invokes the core reload iff uid is the
\* current profile and auto_refresh is true, and returns Ok in every case.
C4_SkipFetch ==
    \A c \in Tasks :
        (skip_fetch[c] /\ pc[c] /= "idle") =>
            /\ Fetches(c) = <<>>
            /\ Select(c, "get_item") = <<>>
            /\ Select(c, "update_item") = <<>>
            /\ store = before[c].store
            /\ Len(Reloads(c)) <= 1
            /\ Done(c) =>
                /\ ret[c] = Some(Ok)
                /\ Len(Reloads(c)) = 1 <=> (current = Some(uid[c]) /\ auto_refresh[c])

\* C4 witness: skip_fetch on the current profile, the core reload failed,
\* the call returned Ok
C4_Witness ==
    /\ Done("t1")
    /\ skip_fetch["t1"]
    /\ current = Some(uid["t1"])
    /\ Len(Reloads("t1")) = 1
    /\ Reloads("t1")[1].b = "core_err"
    /\ ret["t1"] = Some(Ok)

\* ------------------------------------------------------------------------
\* C5

\* C5: after a successful fetch of a remote profile (first or fallback
\* attempt) the core reload is invoked iff uid is the current profile and
\* auto_refresh is true; with auto_refresh false it is never invoked.
C5_ReloadIffCurrentAndAuto ==
    \A c \in Tasks :
        /\ (Done(c) /\ ~skip_fetch[c] /\ FetchSucceeded(c)) =>
                Len(Reloads(c)) = IF current = Some(uid[c]) /\ auto_refresh[c] THEN 1 ELSE 0
        /\ (pc[c] /= "idle" /\ ~auto_refresh[c]) =>
                /\ Reloads(c) = <<>>
                /\ ~should_update[c]

\* C5 witness: the fallback fetch succeeded for the current profile with
\* auto_refresh, and the core reload was invoked
C5_Witness ==
    /\ Done("t1")
    /\ SecondSucceeded("t1")
    /\ current = Some(uid["t1"])
    /\ auto_refresh["t1"]
    /\ Len(Reloads("t1")) = 1

\* ------------------------------------------------------------------------
\* C6

\* the item the call handed to the store
Persisted(c) ==
    IF FirstSucceeded(c)
    THEN item[c][1]
    ELSE restore_option(item[c][1], original_with_proxy(merged_opt[c]),
                                    original_self_proxy(merged_opt[c]))

\* C6: when the core reload fails, update_profile still returns Ok, the
\* last thing it did was to emit update_failed with the error text, and the
\* store holds the item persisted by the preceding fetch (and is as before
\* the call when there was no fetch).
C6_ReloadFailureSwallowed ==
    \A c \in Tasks :
        (Len(Reloads(c)) >= 1 /\ Reloads(c)[1].b /= "ok") =>
            /\ Done(c)
            /\ ret[c] = Some(Ok)
            /\ trace[c][Len(trace[c])] = Notice("update_failed", Reloads(c)[1].b)
            /\ NoticesOf(c, "update_failed") = <<Notice("update_failed", Reloads(c)[1].b)>>
            /\ store = IF FetchSucceeded(c)
                       THEN [before[c].store EXCEPT ![uid[c]] = Persisted(c)]
                       ELSE before[c].store

\* C6 witness: the first fetch succeeded, its item replaced a different one,
\* the core reload failed and the call returned Ok
C6_Witness ==
    /\ Done("t1")
    /\ FirstSucceeded("t1")
    /\ store /= before["t1"].store
    /\ Len(Reloads("t1")) = 1
    /\ Reloads("t1")[1].b /= "ok"
    /\ ret["t1"] = Some(Ok)

\* ------------------------------------------------------------------------
\* C7

FetchKeys == {"update_retry_with_clash", "update_with_clash_proxy",
              "update_failed_even_with_clash"}

FetchNotices(c) == SelectSeq(trace[c], LAMBDA e : e.ev = "notice" /\ e.a \in FetchKeys)

\* C7 as stated: every call that returns an error has emitted at least one
\* notification, and a call whose first attempt succeeds emits no
\* fetch-related notification.
C7_OriginalEveryErrorNotifies ==
    \A c \in Tasks :
        /\ (Done(c) /\ ~ret[c][1].ok) => Notices(c) /= <<>>
        /\ FirstSucceeded(c) => FetchNotices(c) = <<>>

\* C7 amended: of the calls that return an error, the one whose two fetch
\* attempts failed has emitted update_failed_even_with_clash before
\* returning, while the not-found and the missing-url error are returned
\* without any notification; the three fetch-related notifications are
\* emitted only after attempt 1 failed, never when it succeeded.
C7_OnlyFetchFailureNotifies ==
    \A c \in Tasks :
        /\ (Done(c) /\ ~ret[c][1].ok) =>
            IF FirstFailed(c) /\ SecondFailed(c)
            THEN NoticesOf(c, "update_failed_even_with_clash") /= <<>>
            ELSE /\ ret[c][1].err \in {ErrNotFound, ErrMissingUrl}
                 /\ Notices(c) = <<>>
        /\ FirstSucceeded(c) => FetchNotices(c) = <<>>
        /\ FetchNotices(c) /= <<>> => FirstFailed(c)

\* C7 witness: both attempts failed and the call returned the error
C7_Witness ==
    /\ Done("t1")
    /\ ~ret["t1"][1].ok
    /\ SecondFailed("t1")
    /\ Len(Notices("t1")) = 2

\* ------------------------------------------------------------------------
\* C8

\* C8: a call invokes the fetch primitive at most twice, the second time
\* exactly when the first failed; update_retry_with_clash carrying the uid
\* is emitted once, right after the first failure and before the second
\* invocation, and never when the first invocation succeeded.
C8_TwoAttempts ==
    \A c \in Tasks :
        /\ Len(Fetches(c)) <= 2
        /\ Len(Fetches(c)) = 2 => FirstFailed(c)
        /\ (FirstFailed(c) /\ pc[c] /= "fetch2") => Len(Fetches(c)) = 2
        /\ FirstSucceeded(c) => NoticesOf(c, "update_retry_with_clash") = <<>>
        /\ FirstFailed(c) =>
            /\ NoticesOf(c, "update_retry_with_clash")
                    = <<Notice("update_retry_with_clash", uid[c])>>
            /\ \E i \in DOMAIN trace[c] :
                /\ Positions(c, "fetch") \cap (1 .. i) = {i}
                /\ i + 1 \in DOMAIN trace[c]
                /\ trace[c][i + 1] = Notice("update_retry_with_clash", uid[c])
                /\ \A j \in Positions(c, "fetch") : j /= i => j > i + 1

\* C8 witness: the first attempt failed, the second succeeded, the call is over
C8_Witness ==
    /\ Done("t1")
    /\ FirstFailed("t1")
    /\ SecondSucceeded("t1")
    /\ Len(Fetches("t1")) = 2

\* ------------------------------------------------------------------------
\* C9

\* C9: for a remote profile without url, a call without skip_fetch fails
\* with the missing-url error, without any fetch, store change or core
\* reload, whatever auto_refresh and the override option are.
C9_MissingUrl ==
    \A c \in Tasks :
        (pc[c] \notin {"idle", "start"} /\ ~skip_fetch[c]
            /\ HadRemote(c) /\ HadItem(c).url = None) =>
            /\ Done(c)
            /\ ret[c] = Some(Err(ErrMissingUrl))
            /\ Fetches(c) = <<>>
            /\ Writes(c) = <<>>
            /\ Untouched(c)
            /\ Reloads(c) = <<>>

\* C9 witness: a call with auto_refresh and an override option on the
\* remote profile without url has failed
C9_Witness ==
    /\ Done("t1")
    /\ uid["t1"] = "B"
    /\ ~skip_fetch["t1"]
    /\ auto_refresh["t1"]
    /\ IsSome(option["t1"])
    /\ ret["t1"] = Some(Err(ErrMissingUrl))

\* ------------------------------------------------------------------------
\* C10

\* C10: for a uid the store does not hold, a call without skip_fetch fails
\* with the not-found error, without any fetch, store change or core reload.
C10_NotFound ==
    \A c \in Tasks :
        (pc[c] \notin {"idle", "start"} /\ ~skip_fetch[c] /\ ~Had(c)) =>
            /\ Done(c)
            /\ ret[c] = Some(Err(ErrNotFound))
            /\ Fetches(c) = <<>>
            /\ Writes(c) = <<>>
            /\ Untouched(c)
            /\ Reloads(c) = <<>>

\* C10 witness: a call with auto_refresh on the uid the store does not hold
\* has failed
C10_Witness ==
    /\ Done("t1")
    /\ uid["t1"] = "Z"
    /\ ~skip_fetch["t1"]
    /\ auto_refresh["t1"]
    /\ ret["t1"] = Some(Err(ErrNotFound))

\* ------------------------------------------------------------------------
\* C11

\* C11: for a stored profile that is not remote, a call without skip_fetch
\* never fetches and never changes the store, and invokes the core reload
\* iff auto_refresh is true, whether or not uid is the current profile.
C11_NotRemote ==
    \A c \in Tasks :
        (pc[c] \notin {"idle", "start"} /\ ~skip_fetch[c] /\ Had(c) /\ ~HadRemote(c)) =>
            /\ Fetches(c) = <<>>
            /\ Select(c, "update_item") = <<>>
            /\ Untouched(c)
            /\ pc[c] = "decide" => should_update[c] = auto_refresh[c]
            /\ Done(c) =>
                /\ ret[c] = Some(Ok)
                /\ Len(Reloads(c)) = IF auto_refresh[c] THEN 1 ELSE 0

\* C11 witness: a call with auto_refresh on the local profile, which is not
\* the current one, has invoked the core reload
C11_Witness ==
    /\ Done("t1")
    /\ uid["t1"] = "L"
    /\ ~skip_fetch["t1"]
    /\ current /= Some("L")
    /\ auto_refresh["t1"]
    /\ Len(Reloads("t1")) = 1

\* ------------------------------------------------------------------------
\* C14

OptionFields == {"user_agent", "with_proxy", "self_proxy"}

\* a field of an Option<PrfOption>, absent when the option is
FieldOf(o, f) == IF o = None THEN None ELSE o[1][f]

\* C14: the option passed to fetch attempt 1 is absent iff the stored option
\* and the override are both absent, and each of its fields has the
\* override's value when the override sets it and the stored value otherwise.
C14_FirstOptionIsMerge ==
    \A c \in Tasks :
        Len(Fetches(c)) >= 1 =>
            LET stored == HadItem(c).option
                passed == Fetches(c)[1].opt
            IN  /\ passed = None <=> (stored = None /\ option[c] = None)
                /\ \A f \in OptionFields :
                    FieldOf(passed, f) = IF IsSome(FieldOf(option[c], f))
                                         THEN FieldOf(option[c], f)
                                         ELSE FieldOf(stored, f)

\* C14 witness: the override sets self_proxy and leaves with_proxy and
\* user_agent to the stored option, which sets them
C14_Witness ==
    /\ Len(Fetches("t1")) >= 1
    /\ FieldOf(option["t1"], "self_proxy") = Some(FALSE)
    /\ FieldOf(option["t1"], "with_proxy") = None
    /\ FieldOf(HadItem("t1").option, "with_proxy") = Some(TRUE)
    /\ FieldOf(HadItem("t1").option, "user_agent") = Some("ua0")
    /\ Fetches("t1")[1].opt
        = Some([user_agent |-> Some("ua0"), with_proxy |-> Some(TRUE), self_proxy |-> Some(FALSE)])

\* ------------------------------------------------------------------------
\* C15

\* C15: attempt 1 is passed the merged option as it is; attempt 2 is passed
\* the merged option (the empty option when it is absent) with with_proxy
\* false and self_proxy true and every other field unchanged; both attempts
\* use the same url.
C15_FallbackOption ==
    \A c \in Tasks :
        /\ Len(Fetches(c)) >= 1 =>
            /\ Fetches(c)[1].opt = merged_opt[c]
            /\ Fetches(c)[1].a = HadItem(c).url[1]
        /\ Len(Fetches(c)) >= 2 =>
            LET second == Fetches(c)[2].opt IN
            /\ IsSome(second)
            /\ second[1].with_proxy = Some(FALSE)
            /\ second[1].self_proxy = Some(TRUE)
            /\ second[1].user_agent = FieldOf(merged_opt[c], "user_agent")
            /\ Fetches(c)[2].a = Fetches(c)[1].a

\* C15 witness: the merged option sets with_proxy to true and a user agent,
\* and the second attempt has been made
C15_Witness ==
    /\ Len(Fetches("t1")) = 2
    /\ FieldOf(merged_opt["t1"], "with_proxy") = Some(TRUE)
    /\ FieldOf(merged_opt["t1"], "user_agent") = Some("ua0")

\* ------------------------------------------------------------------------
\* C16

WithProxyTrue == [DefaultOption EXCEPT !.with_proxy = Some(TRUE)]

\* the scenario: A is remote with url and option {with_proxy: true} and is
\* the current profile, no override, auto_refresh, attempt 1 fails,
\* attempt 2 returns an item with an empty option, the call has returned
C16_Scenario(c) ==
    /\ Done(c)
    /\ uid[c] = "A"
    /\ ~skip_fetch[c]
    /\ auto_refresh[c]
    /\ option[c] = None
    /\ before[c].current = Some("A")
    /\ before[c].store["A"].option = Some(WithProxyTrue)
    /\ FirstFailed(c)
    /\ SecondSucceeded(c)
    /\ item[c][1].option = Some(DefaultOption)

\* C16: in the scenario update_profile returns Ok, the store holds A with
\* with_proxy true and self_proxy absent, the notifications start with
\* update_retry_with_clash and then update_with_clash_proxy carrying the
\* item's name (the uid when it has none), followed by nothing but the
\* update_failed of a failed reload, and the core reload is invoked exactly
\* once, after the store replace.
C16_ScenarioOutcome ==
    \A c \in Tasks :
        C16_Scenario(c) =>
            LET shown == IF item[c][1].name = None THEN "A" ELSE item[c][1].name[1]
                fetchNotices == <<Notice("update_retry_with_clash", "A"),
                                  Notice("update_with_clash_proxy", shown)>>
            IN  /\ ret[c] = Some(Ok)
                /\ store["A"].option = Some(WithProxyTrue)
                /\ store["A"].name = item[c][1].name
                /\ Len(Reloads(c)) = 1
                /\ Notices(c) = IF Reloads(c)[1].b = "ok"
                                THEN fetchNotices
                                ELSE fetchNotices \o <<Notice("update_failed", Reloads(c)[1].b)>>
                /\ \A i \in Positions(c, "update_config") :
                    \E j \in Positions(c, "update_item") : j < i

\* C16 witness: the scenario with an item that has a name
C16_Witness ==
    /\ C16_Scenario("t1")
    /\ item["t1"][1].name = Some("sub")
    /\ Reloads("t1")[1].b = "ok"

\* ------------------------------------------------------------------------
\* C19

\* positions of the trace holding that notification
NoticePositions(c, key) ==
    {i \in DOMAIN trace[c] : trace[c][i].ev = "notice" /\ trace[c][i].a = key}

\* C19: a call invokes the core reload at most once and as its last step
\* (only the outcome of that reload follows it); on the remote path the core
\* reload and update_with_clash_proxy come after the successful store
\* replace of that call.
C19_ReloadLastAndAfterReplace ==
    \A c \in Tasks :
        /\ Len(Reloads(c)) <= 1
        /\ \A i \in Positions(c, "update_config") :
            /\ Done(c)
            /\ i = Len(trace[c]) - 1
            /\ \/ trace[c][i + 1].ev = "refresh_clash"
               \/ trace[c][i + 1] = Notice("update_failed", trace[c][i].b)
        /\ Fetches(c) /= <<>> =>
            \A i \in Positions(c, "update_config") \cup NoticePositions(c, "update_with_clash_proxy") :
                \E j \in DOMAIN trace[c] :
                    /\ j < i
                    /\ trace[c][j].ev = "update_item"
                    /\ trace[c][j].b = "ok"

\* C19 witness: the fallback attempt succeeded and the core reload followed
C19_Witness ==
    /\ Done("t1")
    /\ SecondSucceeded("t1")
    /\ NoticePositions("t1", "update_with_clash_proxy") /= {}
    /\ Len(Reloads("t1")) = 1
    /\ store /= before["t1"].store

\* ------------------------------------------------------------------------
\* C18

\* the active profile at the moment the call made its activation check
CheckedCurrent(c) == Select(c, "get_current")[1].b

\* C18: on the remote path the reload decision follows the active profile as
\* it is right after the store replace, not as it was when the call began:
\* the item is persisted and the core reload is invoked iff auto_refresh is
\* true and uid is the active profile at that moment.
C18_DecisionAfterReplace ==
    \A c \in Tasks :
        (~skip_fetch[c] /\ FetchSucceeded(c) /\ pc[c] \in {"decide", "done"}) =>
            /\ Len(Writes(c)) = 1
            /\ Len(Select(c, "get_current")) = 1
            /\ \A i \in Positions(c, "get_current") :
                \E j \in Positions(c, "update_item") : j < i
            /\ should_update[c] = (auto_refresh[c] /\ CheckedCurrent(c) = uid[c])
            /\ Done(c) =>
                Len(Reloads(c)) = IF auto_refresh[c] /\ CheckedCurrent(c) = uid[c] THEN 1 ELSE 0

\* C18 witness: uid was the current profile when the call began, another
\* profile was activated during the fetch, the item is persisted and the
\* call returned without a core reload
C18_Witness ==
    /\ Done("t1")
    /\ FirstSucceeded("t1")
    /\ auto_refresh["t1"]
    /\ before["t1"].current = Some(uid["t1"])
    /\ CheckedCurrent("t1") /= uid["t1"]
    /\ Len(Writes("t1")) = 1
    /\ store["A"] = item["t1"][1]
    /\ Reloads("t1") = <<>>

\* ------------------------------------------------------------------------
\* C12

\* the store replaces of the entry under u, in the order they happened
Replaces(u) == SelectSeq(order, LAMBDA m : m.what = "replaced" /\ uid[m.task] = u)

\* where in order the task did that
When(c, what) == CHOOSE i \in DOMAIN order : order[i].task = c /\ order[i].what = what

Did(c, what) == \E i \in DOMAIN order : order[i].task = c /\ order[i].what = what

\* C12: when calls for the same uid overlap, the entry under uid is at every
\* moment, and so after both calls finished, one whole item: the item of the
\* call whose store replace came last (the item that call fetched, when its
\* first attempt succeeded), whichever call began or fetched first.
C12_LastWriterWins ==
    \A u \in StoreUids :
        LET reps == Replaces(u) IN
            Len(reps) > 0 =>
                LET last == reps[Len(reps)] IN
                    /\ store[u] = last.item
                    /\ FirstSucceeded(last.task) => store[u] = item[last.task][1]

\* C12 witness: both calls are for A, t1 began first and its fetch returned
\* first, the two fetched different items, t2 replaced the entry before t1
\* did, and both calls have finished: the entry is t1's item
C12_Witness ==
    /\ Done("t1") /\ Done("t2")
    /\ uid["t1"] = "A" /\ uid["t2"] = "A"
    /\ FirstSucceeded("t1") /\ FirstSucceeded("t2")
    /\ Did("t1", "replaced") /\ Did("t2", "replaced")
    /\ Did("t1", "called") /\ Did("t2", "called")
    /\ When("t1", "called") < When("t2", "called")
    /\ When("t1", "fetched") < When("t2", "fetched")
    /\ When("t2", "replaced") < When("t1", "replaced")
    /\ item["t1"] /= item["t2"]
    /\ store["A"] = item["t1"][1]

\* ------------------------------------------------------------------------
\* C17

\* an item without its option
Bare(it) == [itype |-> it.itype, url |-> it.url, name |-> it.name]

\* the task is at its store replace, has fetched an item and has not yet
\* replaced anything
AboutToReplace(c) ==
    /\ pc[c] \in {"store1", "store2"}
    /\ FetchSucceeded(c)
    /\ IsSome(item[c])
    /\ Len(Writes(c)) = 0

\* a step of update_profile leaves currentUid and the set of entries alone,
\* and changes an entry only as the replace of a call for that uid which
\* has fetched an item and replaced nothing yet; the entry is then that
\* item, whole (its option aside on the fallback path, see C1)
C17_StepChangesOwnEntryOnly ==
    /\ current' = current
    /\ DOMAIN store' = DOMAIN store
    /\ \A u \in DOMAIN store :
        store'[u] /= store[u] =>
            \E c \in Tasks :
                /\ uid[c] = u
                /\ AboutToReplace(c)
                /\ pc'[c] = "decide"
                /\ Len(Writes(c))' = 1
                /\ Bare(store'[u]) = Bare(item[c][1])
                /\ IsSome(store'[u].option) <=> IsSome(item[c][1].option)
                /\ pc[c] = "store1" => store'[u] = item[c][1]

\* C17: through any interleaving of update_profile calls currentUid keeps
\* its value and, when present, names an existing entry; a call replaces at
\* most the entry under its uid, at most once, only after one of its fetch
\* attempts succeeded, as a whole item; no other entry changes.
C17_StoreInvariant ==
    /\ [](current = None \/ current[1] \in DOMAIN store)
    /\ [](\A c \in Tasks : Len(Writes(c)) <= 1)
    /\ [][C17_StepChangesOwnEntryOnly]_vars

\* C17 witness: while t2's call for L was in flight, t1's call for the
\* current profile A replaced the entry under A; both have finished
C17_Witness ==
    /\ Done("t1") /\ Done("t2")
    /\ uid["t1"] = "A" /\ uid["t2"] = "L"
    /\ current = Some("A")
    /\ Len(order) >= 2 /\ order[2].what = "called"
    /\ Did("t1", "replaced")
    /\ store["A"] /= before["t2"].store["A"]
    /\ store["A"] = item["t1"][1]

\* ------------------------------------------------------------------------
\* C13

====
